---- MODULE Spec2Model ----
(***************************************************************************)
(* Quiz-platform backend (Express route handlers over a Prisma/PostgreSQL  *)
(* schema).  The database tables are the shared state; every request is a  *)
(* process that runs one route handler.  A handler gives up control at     *)
(* every `await` of an ORM call, so one action of the model is one ORM     *)
(* call together with the synchronous code that follows it up to the next  *)
(* await (or up to the response).  The arrival of a request, the           *)
(* middleware and the first ORM call of the handler form the first action. *)
(***************************************************************************)
EXTENDS Integers, Sequences, FiniteSets, Bags, TLC

VARIABLES
  users,        \* User rows (ids)
  quizzes,      \* Quiz rows
  nextQuiz,     \* next fresh Quiz id (uuid)
  questions,    \* Question rows
  nextQuestion, \* next fresh Question id (uuid)
  options,      \* Option rows (bag: nothing references an option)
  attempts,     \* QuizAttempt rows (bag)
  leaderboards, \* LeaderBoard rows (bag)
  nextLb,       \* next fresh LeaderBoard id (uuid)
  entries,      \* LeaderBoardEntry rows (bag)
  payments,     \* Payment rows (bag)
  subAdmins,    \* SubAdmin rows
  nextSubAdmin, \* next fresh SubAdmin id (uuid)
  stage,        \* history: how far each (user, quiz) got by successful responses
  req           \* the requests in flight, one per connection slot

vars == <<users, quizzes, nextQuiz, questions, nextQuestion, options,
          attempts, leaderboards, nextLb, entries, payments,
          subAdmins, nextSubAdmin, stage, req>>

db == <<users, quizzes, nextQuiz, questions, nextQuestion, options,
        attempts, leaderboards, nextLb, entries, payments,
        subAdmins, nextSubAdmin>>

----------------------------------------------------------------------------
(* Bounds and input sets *)

MaxQuestions == 2    \* questions ever created
MaxPayments == 1     \* payments ever recorded
MaxTotal == 40       \* questions of the quiz whose submissions are scored
MaxSubAdmins == 2    \* sub-admins ever created

\* Three connections.  Slot 1 is the observed client: its last response
\* stays visible until it sends the next request.  The responses of slots 2
\* and 3 are not kept.
Slots == {1, 2, 3}
Observed == {1}
Users == {"u1"}
Admins == {"a1", "a2"}
\* The :id of a delete-user request; no user "u0" was ever registered.
UserIds == Users \cup {"u0"}
PaymentStatus == {"PENDING", "COMPLETED"}
Times == {0, 1, 2}

\* The e-mail addresses of create-sub-admin bodies, and the :id of a
\* delete of a sub-admin (no sub-admin 9 ever exists).
Emails == {"e1", "e2"}
SubAdminIds == {1, 2, 9}
\* The roles a signup body may name.
Role == {"USER", "ADMIN", "SUB_ADMIN"}

Null == <<>>
Some(v) == <<v>>

\* A bearer token as the request carries it.
NoToken == [present |-> FALSE, valid |-> FALSE, id |-> "-", role |-> "-"]
BadToken == [present |-> TRUE, valid |-> FALSE, id |-> "a1", role |-> "ADMIN"]
UserTokens == {[present |-> TRUE, valid |-> TRUE, id |-> u, role |-> "USER"] : u \in Users}
AdminTokens == {[present |-> TRUE, valid |-> TRUE, id |-> a, role |-> "ADMIN"] : a \in Admins}
SubAdminToken == [present |-> TRUE, valid |-> TRUE, id |-> "s1", role |-> "SUB_ADMIN"]
Tokens == {NoToken, BadToken, SubAdminToken} \cup UserTokens \cup AdminTokens
\* The tokens of the two racing clients: the user and an admin.
RaceTokens == {t \in UserTokens \cup AdminTokens : t.id \in {"u1", "a1"}}

\* Question lists of a create-quiz body: the correct answer and the number
\* of options of each question.
QA == [correctAnswer |-> "A", options |-> 1]
QB == [correctAnswer |-> "B", options |-> 1]

\* Bodies of POST /create-quiz.  isArray is false when questions is missing
\* or is not an array.
Body(title, description, price, startDate, endDate, isArray, list) ==
  [title |-> title, description |-> description, price |-> price,
   startDate |-> startDate, endDate |-> endDate, isArray |-> isArray,
   questions |-> list]

QuizBodies ==
  { Body(TRUE, TRUE, Null, Null, Null, TRUE, <<QA>>),
    Body(TRUE, TRUE, Some(5), Some(1), Some(1), TRUE, <<QA, QB>>),
    Body(TRUE, TRUE, Null, Some(2), Some(1), TRUE, <<QA>>),
    Body(TRUE, TRUE, Null, Null, Null, TRUE, << >>),
    Body(TRUE, TRUE, Null, Null, Null, FALSE, << >>),
    Body(FALSE, TRUE, Null, Null, Null, TRUE, <<QA>>),
    Body(TRUE, FALSE, Null, Null, Null, TRUE, <<QA>>) }

\* The quiz ids (uuids) that requests name; create-quiz hands them out in turn.
QuizIds == {1}

NoUpdates == [price |-> Null, startDate |-> Null, endDate |-> Null,
              hasQuestions |-> FALSE, operation |-> "-", questions |-> << >>]

\* Bodies of PATCH /:quizId: a new price, replace the questions by none, add
\* a question, and dates in the wrong order.
PatchBodies ==
  { [NoUpdates EXCEPT !.price = Some(5)],
    [NoUpdates EXCEPT !.hasQuestions = TRUE, !.operation = "replace"],
    [NoUpdates EXCEPT !.hasQuestions = TRUE, !.operation = "add", !.questions = <<QB>>],
    [NoUpdates EXCEPT !.startDate = Some(2), !.endDate = Some(1)] }

\* Bodies of POST /:quizId/submit: answers is missing or not an array, or
\* is one of these arrays of {questionId, answerId} (question 9 never
\* exists; one array names the same question twice).
Ans(questionId, answerId) == [questionId |-> questionId, answerId |-> answerId]
NotAnArray == [isArray |-> FALSE, answers |-> << >>]
SubmitBodies ==
  {NotAnArray} \cup
  {[isArray |-> TRUE, answers |-> l] :
     l \in { << >>, <<Ans(1, "A")>>, <<Ans(1, "B")>>, <<Ans(9, "A")>>,
             <<Ans(1, "A"), Ans(1, "A")>>, <<Ans(1, "A"), Ans(2, "B")>> }}

----------------------------------------------------------------------------
(* Requests *)

NoLocals == [t |-> 0, target |-> "-", updates |-> NoUpdates, isArray |-> TRUE, answers |-> << >>, snap |-> {},
             lb |-> Null, score |-> 0, total |-> 0, pct |-> Null, data |-> Null,
             body |-> Null, sub |-> 0]

Idle == [op |-> "-", pc |-> "idle", tok |-> NoToken, quiz |-> 0,
         status |-> 0, message |-> "-", sent |-> 0, loc |-> NoLocals]

\* The request of slot s may be started: the connection is free.
Free(s) == req[s].pc \in {"idle", "done"}

NewReq(op, tok, quizId) ==
  [Idle EXCEPT !.op = op, !.tok = tok, !.quiz = quizId]

\* res.status(status).json({message, ...}): the handler of slot s answers
\* and ends.
Respond(s, r, status, message) ==
  IF s \in Observed
  THEN [r EXCEPT !.pc = "done", !.status = status, !.message = message,
                 !.sent = r.sent + 1, !.loc.answers = << >>, !.loc.snap = {},
                 !.loc.lb = Null, !.loc.updates = NoUpdates]
  ELSE Idle

\* The history of successful responses per (user, quiz): nothing yet, a
\* join answered 201, and after that a submit answered 200.
NoStage == [p \in Users \X QuizIds |-> "none"]

\* The join of user u for quiz q answers 201.
JoinSucceeded(u, q) ==
  IF <<u, q>> \in DOMAIN stage THEN [stage EXCEPT ![<<u, q>>] = "joined"] ELSE stage

\* The submit of user u for quiz q answers 200.
SubmitSucceeded(u, q) ==
  IF <<u, q>> \in DOMAIN stage /\ stage[<<u, q>>] # "none"
  THEN [stage EXCEPT ![<<u, q>>] = "submitted"] ELSE stage

----------------------------------------------------------------------------
(* Middleware *)

\* authenticate without the roles.includes(decoded.role) test.
authenticateAnyRole(roles, tok) ==
  IF ~tok.present THEN [status |-> 401, message |-> "Unauthorized"]
  ELSE IF ~tok.valid THEN [status |-> 403, message |-> "Invalid token"]
  ELSE [status |-> 0, message |-> "next"]

\* authenticate(roles): 0 stands for `req.user = decoded; next()`.
authenticate(roles, tok) ==
  IF ~tok.present THEN [status |-> 401, message |-> "Unauthorized"]
  ELSE IF ~tok.valid THEN [status |-> 403, message |-> "Invalid token"]
  ELSE IF tok.role \notin roles THEN [status |-> 403, message |-> "Access denied"]
  ELSE [status |-> 0, message |-> "next"]

\* authMiddleware: any verified token passes, whatever its role.
authMiddleware(tok) ==
  IF ~tok.present THEN [status |-> 401, message |-> "Unauthorized"]
  ELSE IF ~tok.valid THEN [status |-> 401, message |-> "Invalid token"]
  ELSE [status |-> 0, message |-> "next"]

----------------------------------------------------------------------------
(* The schema: rows, keys, unique and foreign-key constraints *)
(* (src/unnamed/part_000, lines 85-131).  DeleteWhere is deleteMany and    *)
(* the cascade of a delete; Count is the number of rows under a key.       *)

Rows(bag) == BagToSet(bag)
Insert(bag, row) == bag (+) SetToBag({row})
DeleteWhere(bag, P(_)) ==
  LET keep == {r \in Rows(bag) : ~P(r)}
  IN [r \in keep |-> bag[r]]
Count(bag, P(_)) ==
  LET hit == {r \in Rows(bag) : P(r)}
      RECURSIVE Sum(_)
      Sum(S) == IF S = {} THEN 0
                ELSE LET r == CHOOSE x \in S : TRUE
                     IN bag[r] + Sum(S \ {r})
  IN Sum(hit)

QuizExists(q) == \E z \in quizzes : z.id = q
QuizRow(q) == CHOOSE z \in quizzes : z.id = q
QuestionsOf(q) == {x \in questions : x.quizId = q}
AttemptsOf(u, q) == {a \in Rows(attempts) : a.userId = u /\ a.quizId = q}
LeaderboardsOf(q) == {l \in Rows(leaderboards) : l.quizId = q}
LbExists(l) == \E x \in Rows(leaderboards) : x.id = l
EntriesOf(l, u) == {e \in Rows(entries) : e.leaderboardId = l /\ e.userId = u}

\* Quiz deletion whose cascade misses the attempts.
CascadeQuizNoAttempts(q) ==
  LET qs == {x.id : x \in QuestionsOf(q)}
      lbs == {l.id : l \in LeaderboardsOf(q)}
  IN /\ quizzes' = {z \in quizzes : z.id # q}
     /\ questions' = {x \in questions : x.quizId # q}
     /\ options' = DeleteWhere(options, LAMBDA o : o.questionId \in qs)
     /\ attempts' = attempts
     /\ leaderboards' = DeleteWhere(leaderboards, LAMBDA l : l.quizId = q)
     /\ entries' = DeleteWhere(entries, LAMBDA e : e.leaderboardId \in lbs)
     /\ payments' = DeleteWhere(payments, LAMBDA p : p.quizId = q)

\* onDelete: Cascade from Quiz: its questions (and their options), its
\* attempts, its leaderboard (and its entries) and its payments go with it.
CascadeQuiz(q) ==
  LET qs == {x.id : x \in QuestionsOf(q)}
      lbs == {l.id : l \in LeaderboardsOf(q)}
  IN /\ quizzes' = {z \in quizzes : z.id # q}
     /\ questions' = {x \in questions : x.quizId # q}
     /\ options' = DeleteWhere(options, LAMBDA o : o.questionId \in qs)
     /\ attempts' = DeleteWhere(attempts, LAMBDA a : a.quizId = q)
     /\ leaderboards' = DeleteWhere(leaderboards, LAMBDA l : l.quizId = q)
     /\ entries' = DeleteWhere(entries, LAMBDA e : e.leaderboardId \in lbs)
     /\ payments' = DeleteWhere(payments, LAMBDA p : p.quizId = q)

\* The rows a nested `questions: { create: [...] }` writes for quiz q.
NewQuestions(q, list) ==
  {[id |-> nextQuestion + i - 1, quizId |-> q,
    correctAnswer |-> list[i].correctAnswer] : i \in 1..Len(list)}
NewOptions(list) ==
  LET RECURSIVE Add(_, _)
      Add(bag, i) ==
        IF i > Len(list) THEN bag
        ELSE Add(bag (+) [o \in {[questionId |-> nextQuestion + i - 1]}
                            |-> list[i].options], i + 1)
  IN Add(options, 1)

----------------------------------------------------------------------------
(* POST /create-quiz *)

\* The validation without the questions.length === 0 test.
BodyIncompleteAllowsEmpty(body) ==
  \/ ~body.title
  \/ ~body.description
  \/ ~body.isArray

BodyIncomplete(body) ==
  \/ ~body.title
  \/ ~body.description
  \/ ~body.isArray
  \/ Len(body.questions) = 0

DatesInverted(startDate, endDate) ==
  startDate # Null /\ endDate # Null /\ startDate[1] > endDate[1]

CreateQuiz_create(s, tok, body) ==
  /\ Free(s)
  /\ LET r == [NewReq("create-quiz", tok, 0) EXCEPT !.loc.body = Some(body)]
         a == authenticate({"ADMIN"}, tok)
     IN IF a.status # 0
        THEN /\ req' = [req EXCEPT ![s] = Respond(s, r, a.status, a.message)]
             /\ UNCHANGED <<db, stage>>
        ELSE IF BodyIncomplete(body)
        THEN /\ req' = [req EXCEPT ![s] = Respond(s, r, 400,
                          "Please provide title, description, and at least one question")]
             /\ UNCHANGED <<db, stage>>
        ELSE IF DatesInverted(body.startDate, body.endDate)
        THEN /\ req' = [req EXCEPT ![s] = Respond(s, r, 400, "End date must be after start date")]
             /\ UNCHANGED <<db, stage>>
        ELSE /\ nextQuiz \in QuizIds
             /\ nextQuestion + Len(body.questions) - 1 <= MaxQuestions
             /\ quizzes' = quizzes \cup
                  {[id |-> nextQuiz, adminId |-> tok.id, price |-> body.price,
                    startDate |-> body.startDate, endDate |-> body.endDate]}
             /\ nextQuiz' = nextQuiz + 1
             /\ questions' = questions \cup NewQuestions(nextQuiz, body.questions)
             /\ options' = NewOptions(body.questions)
             /\ nextQuestion' = nextQuestion + Len(body.questions)
             /\ req' = [req EXCEPT ![s] =
                          [r EXCEPT !.pc = "leaderBoard.create", !.quiz = nextQuiz]]
             /\ UNCHANGED <<users, attempts, leaderboards, nextLb, entries, payments, subAdmins, nextSubAdmin, stage>>

CreateQuiz_leaderBoard(s) ==
  /\ req[s].op = "create-quiz"
  /\ req[s].pc = "leaderBoard.create"
  /\ IF ~QuizExists(req[s].quiz) \/ LeaderboardsOf(req[s].quiz) # {}
     THEN /\ req' = [req EXCEPT ![s] = Respond(s, req[s], 500, "Error creating quiz")]
          /\ UNCHANGED <<db, stage>>
     ELSE /\ leaderboards' = Insert(leaderboards, [id |-> nextLb, quizId |-> req[s].quiz])
          /\ nextLb' = nextLb + 1
          /\ req' = [req EXCEPT ![s] = Respond(s, req[s], 201, "-")]
          /\ UNCHANGED <<users, quizzes, nextQuiz, questions, nextQuestion, options,
                         attempts, entries, payments, subAdmins, nextSubAdmin, stage>>

----------------------------------------------------------------------------
(* DELETE /:quizId *)

\* The delete handler whose findFirst looks the quiz up by id alone.
DeleteQuiz_findFirstAnyAdmin(s, tok, q) ==
  /\ Free(s)
  /\ LET r == NewReq("delete-quiz", tok, q)
         a == authenticate({"ADMIN"}, tok)
     IN /\ IF a.status # 0
           THEN req' = [req EXCEPT ![s] = Respond(s, r, a.status, a.message)]
           ELSE IF ~\E z \in quizzes : z.id = q
           THEN req' = [req EXCEPT ![s] = Respond(s, r, 404,
                          "Quiz not found or you do not have permission to delete it")]
           ELSE req' = [req EXCEPT ![s] = [r EXCEPT !.pc = "quiz.delete"]]
        /\ UNCHANGED <<db, stage>>

DeleteQuiz_findFirst(s, tok, q) ==
  /\ Free(s)
  /\ LET r == NewReq("delete-quiz", tok, q)
         a == authenticate({"ADMIN"}, tok)
     IN /\ IF a.status # 0
           THEN req' = [req EXCEPT ![s] = Respond(s, r, a.status, a.message)]
           ELSE IF ~\E z \in quizzes : z.id = q /\ z.adminId = tok.id
           THEN req' = [req EXCEPT ![s] = Respond(s, r, 404,
                          "Quiz not found or you do not have permission to delete it")]
           ELSE req' = [req EXCEPT ![s] = [r EXCEPT !.pc = "quiz.delete"]]
        /\ UNCHANGED <<db, stage>>

DeleteQuiz_delete(s) ==
  /\ req[s].op = "delete-quiz"
  /\ req[s].pc = "quiz.delete"
  /\ IF ~QuizExists(req[s].quiz)
     THEN /\ req' = [req EXCEPT ![s] = Respond(s, req[s], 500, "Error deleting quiz")]
          /\ UNCHANGED <<db, stage>>
     ELSE /\ CascadeQuiz(req[s].quiz)
          /\ req' = [req EXCEPT ![s] = Respond(s, req[s], 200, "Quiz deleted successfully")]
          /\ UNCHANGED <<users, nextQuiz, nextQuestion, nextLb, subAdmins, nextSubAdmin, stage>>

----------------------------------------------------------------------------
(* PATCH /:quizId *)

\* The statements of the transaction that write, and that throw when the
\* quiz row is gone.
PatchWrites(u) ==
  \/ u.price # Null \/ u.startDate # Null \/ u.endDate # Null
  \/ (u.hasQuestions /\ u.operation \in {"replace", "add"})

PatchQuiz_findFirst(s, tok, q, updates) ==
  /\ Free(s)
  /\ nextQuestion + Len(updates.questions) - 1 <= MaxQuestions
  /\ LET r == [NewReq("patch-quiz", tok, q) EXCEPT !.loc.updates = updates]
         a == authenticate({"ADMIN"}, tok)
     IN /\ IF a.status # 0
           THEN req' = [req EXCEPT ![s] = Respond(s, r, a.status, a.message)]
           ELSE IF ~\E z \in quizzes : z.id = q /\ z.adminId = tok.id
           THEN req' = [req EXCEPT ![s] = Respond(s, r, 404,
                          "Quiz not found or you do not have permission to update it")]
           ELSE req' = [req EXCEPT ![s] = [r EXCEPT !.pc = "$transaction"]]
        /\ UNCHANGED <<db, stage>>

\* prisma.$transaction(...): its statements commit together or not at all.
PatchQuiz_transaction(s) ==
  /\ req[s].op = "patch-quiz"
  /\ req[s].pc = "$transaction"
  /\ LET u == req[s].loc.updates
         q == req[s].quiz
         old == IF u.hasQuestions /\ u.operation = "replace"
                THEN {x.id : x \in QuestionsOf(q)} ELSE {}
         new == IF u.hasQuestions /\ u.operation \in {"replace", "add"}
                THEN u.questions ELSE << >>
     IN IF DatesInverted(u.startDate, u.endDate) \/ (PatchWrites(u) /\ ~QuizExists(q))
        THEN /\ req' = [req EXCEPT ![s] = Respond(s, req[s], 500, "Error updating quiz")]
             /\ UNCHANGED <<db, stage>>
        ELSE /\ nextQuestion + Len(new) - 1 <= MaxQuestions
             /\ quizzes' = {IF z.id # q THEN z
                            ELSE [z EXCEPT
                                    !.price = IF u.price # Null THEN u.price ELSE @,
                                    !.startDate = IF u.startDate # Null THEN u.startDate ELSE @,
                                    !.endDate = IF u.endDate # Null THEN u.endDate ELSE @] :
                            z \in quizzes}
             /\ questions' = {x \in questions : x.id \notin old} \cup NewQuestions(q, new)
             /\ options' = LET kept == DeleteWhere(options, LAMBDA o : o.questionId \in old)
                           IN kept (+) (NewOptions(new) (-) options)
             /\ nextQuestion' = nextQuestion + Len(new)
             /\ req' = [req EXCEPT ![s] = Respond(s, req[s], 200, "-")]
             /\ UNCHANGED <<users, nextQuiz, attempts, leaderboards, nextLb, entries, payments, subAdmins, nextSubAdmin, stage>>

----------------------------------------------------------------------------
(* POST /:quizId/join *)

Join_findQuiz(s, tok, q, currentDate) ==
  /\ Free(s)
  /\ LET r == [NewReq("join", tok, q) EXCEPT !.loc.t = currentDate]
         a == authMiddleware(tok)
     IN /\ IF a.status # 0
           THEN req' = [req EXCEPT ![s] = Respond(s, r, a.status, a.message)]
           ELSE IF ~QuizExists(q)
           THEN req' = [req EXCEPT ![s] = Respond(s, r, 404, "Quiz not found")]
           ELSE IF QuizRow(q).startDate # Null /\ QuizRow(q).startDate[1] > currentDate
           THEN req' = [req EXCEPT ![s] = Respond(s, r, 403, "This quiz has not started yet")]
           ELSE IF QuizRow(q).endDate # Null /\ QuizRow(q).endDate[1] < currentDate
           THEN req' = [req EXCEPT ![s] = Respond(s, r, 403, "This quiz has already ended")]
           ELSE req' = [req EXCEPT ![s] = [r EXCEPT !.pc = "quizAttempt.findUnique"]]
        /\ UNCHANGED <<db, stage>>

\* The join handler without the `if (existingAttempt)` answer.
Join_findAttemptNoCheck(s) ==
  /\ req[s].op = "join"
  /\ req[s].pc = "quizAttempt.findUnique"
  /\ req' = [req EXCEPT ![s].pc = "quizAttempt.create"]
  /\ UNCHANGED <<db, stage>>

Join_findAttempt(s) ==
  /\ req[s].op = "join"
  /\ req[s].pc = "quizAttempt.findUnique"
  /\ IF AttemptsOf(req[s].tok.id, req[s].quiz) # {}
     THEN req' = [req EXCEPT ![s] = Respond(s, req[s], 400, "You have already joined this quiz")]
     ELSE req' = [req EXCEPT ![s].pc = "quizAttempt.create"]
  /\ UNCHANGED <<db, stage>>

\* quizAttempt.create without @@unique([userId, quizId]).
AttemptCreateThrowsNoUnique(u, q) ==
  \/ u \notin users
  \/ ~QuizExists(q)

\* quizAttempt.create: the foreign keys and @@unique([userId, quizId]) hold,
\* or the call throws.
AttemptCreateThrows(u, q) ==
  \/ u \notin users
  \/ ~QuizExists(q)
  \/ AttemptsOf(u, q) # {}

Join_create(s) ==
  /\ req[s].op = "join"
  /\ req[s].pc = "quizAttempt.create"
  /\ IF AttemptCreateThrows(req[s].tok.id, req[s].quiz)
     THEN /\ req' = [req EXCEPT ![s] = Respond(s, req[s], 500, "Error joining quiz")]
          /\ UNCHANGED <<db, stage>>
     ELSE /\ attempts' = Insert(attempts, [userId |-> req[s].tok.id, quizId |-> req[s].quiz,
                                            score |-> 0, completed |-> FALSE])
          /\ req' = [req EXCEPT ![s] = Respond(s, req[s], 201, "Successfully joined the quiz")]
          /\ stage' = JoinSucceeded(req[s].tok.id, req[s].quiz)
          /\ UNCHANGED <<users, quizzes, nextQuiz, questions, nextQuestion, options,
                         leaderboards, nextLb, entries, payments, subAdmins, nextSubAdmin>>

----------------------------------------------------------------------------
(* Number arithmetic: score / totalQuestions and (...) * 100 are IEEE-754   *)
(* double operations, each rounded to 53 significant bits, ties to even.   *)
(* A positive double is [bits, exp]: 53 bits, least significant first, the *)
(* last one 1, standing for the integer they spell times 2^(exp - 52).     *)

MantissaBits == 53

Zeros(k) == [i \in 1..k |-> 0]

\* The sum of two bit strings (least significant bit first).
RECURSIVE AddBits(_, _, _)
AddBits(a, b, carry) ==
  IF a = << >> /\ b = << >>
  THEN IF carry = 1 THEN <<1>> ELSE << >>
  ELSE LET x == IF a = << >> THEN 0 ELSE Head(a)
           y == IF b = << >> THEN 0 ELSE Head(b)
           ra == IF a = << >> THEN a ELSE Tail(a)
           rb == IF b = << >> THEN b ELSE Tail(b)
           sum == x + y + carry
       IN <<sum % 2>> \o AddBits(ra, rb, sum \div 2)

RECURSIVE BitsToInt(_)
BitsToInt(a) == IF a = << >> THEN 0 ELSE Head(a) + 2 * BitsToInt(Tail(a))

\* Round a bit string of any length >= 53 to 53 bits, ties to even; exp is
\* the exponent of its leading bit.
RoundToDouble(bits, exp) ==
  LET drop == Len(bits) - MantissaBits
      kept == SubSeq(bits, drop + 1, Len(bits))
      guard == IF drop = 0 THEN 0 ELSE bits[drop]
      sticky == \E i \in 1..(drop - 1) : bits[i] = 1
      up == guard = 1 /\ (sticky \/ kept[1] = 1)
      inc == IF up THEN AddBits(kept, <<1>>, 0) ELSE kept
  IN IF Len(inc) > MantissaBits
     THEN [bits |-> SubSeq(inc, 2, Len(inc)), exp |-> exp + 1]
     ELSE [bits |-> inc, exp |-> exp]

\* The first k quotient bits of rem / d (rem < 2d), least significant
\* first, below them the next bit (guard) and whether anything is left
\* after it (sticky).
RECURSIVE DivBits(_, _, _)
DivBits(rem, d, k) ==
  IF k = 0
  THEN IF rem > d THEN <<1, 1>>
       ELSE IF rem = d THEN <<0, 1>>
       ELSE IF rem > 0 THEN <<1, 0>>
       ELSE <<0, 0>>
  ELSE IF rem >= d THEN DivBits(2 * (rem - d), d, k - 1) \o <<1>>
       ELSE DivBits(2 * rem, d, k - 1) \o <<0>>

\* n / d for integers n > 0, d > 0, as a double.
RECURSIVE Divide(_, _, _)
Divide(n, d, exp) ==
  IF n < d THEN Divide(2 * n, d, exp - 1)
  ELSE IF n >= 2 * d THEN Divide(n, 2 * d, exp + 1)
  ELSE RoundToDouble(DivBits(n, d, MantissaBits), exp)

\* x * 100 for a double x: 100 = 64 + 32 + 4.
Times100(x) ==
  LET p == AddBits(AddBits(Zeros(6) \o x.bits, Zeros(5) \o x.bits, 0),
                   Zeros(2) \o x.bits, 0)
  IN RoundToDouble(p, x.exp + (Len(p) - MantissaBits))

\* Math.round of a positive double: the nearest integer, halves upwards.
MathRound(x) ==
  LET n == x.exp + 1          \* the number of bits before the binary point
      frac == MantissaBits - n
  IN IF n < 0 THEN 0
     ELSE IF n = 0 THEN 1
     ELSE BitsToInt(SubSeq(x.bits, frac + 1, MantissaBits))
            + (IF frac >= 1 THEN x.bits[frac] ELSE 0)

\* Math.round((score / totalQuestions) * 100); Null stands for NaN (0 / 0).
percentageScore(score, totalQuestions) ==
  IF totalQuestions = 0 THEN Null
  ELSE IF score = 0 THEN Some(0)
  ELSE Some(MathRound(Times100(Divide(score, totalQuestions, 0))))

----------------------------------------------------------------------------
(* POST /:quizId/submit *)

\* answers.map(...) over questionsMap: one point for every answer whose
\* question is in the map and whose answerId is that question's correctAnswer.
RECURSIVE calculateScore(_, _)
calculateScore(answers, snap) ==
  IF answers = << >> THEN 0
  ELSE LET a == Head(answers)
           hit == \E x \in snap : x.id = a.questionId /\ x.correctAnswer = a.answerId
       IN (IF hit THEN 1 ELSE 0) + calculateScore(Tail(answers), snap)

Submit_findQuiz(s, tok, q, body) ==
  /\ Free(s)
  /\ LET r == [NewReq("submit", tok, q) EXCEPT !.loc.isArray = body.isArray]
         a == authenticate({"USER"}, tok)
         lbs == LeaderboardsOf(q)
     IN /\ IF a.status # 0
           THEN req' = [req EXCEPT ![s] = Respond(s, r, a.status, a.message)]
           ELSE IF ~body.isArray
           THEN req' = [req EXCEPT ![s] = Respond(s, r, 400, "Answers must be an array")]
           ELSE IF ~QuizExists(q)
           THEN req' = [req EXCEPT ![s] = Respond(s, r, 404, "Quiz not found")]
           ELSE req' = [req EXCEPT ![s] =
                  [r EXCEPT !.pc = "quizAttempt.findUnique",
                            !.loc.answers = body.answers,
                            !.loc.snap = {[id |-> x.id, correctAnswer |-> x.correctAnswer] :
                                            x \in QuestionsOf(q)},
                            !.loc.lb = IF lbs = {} THEN Null
                                       ELSE Some((CHOOSE l \in lbs : TRUE).id)]]
        /\ UNCHANGED <<db, stage>>

Submit_findAttempt(s) ==
  /\ req[s].op = "submit"
  /\ req[s].pc = "quizAttempt.findUnique"
  /\ LET found == AttemptsOf(req[s].tok.id, req[s].quiz)
         score == calculateScore(req[s].loc.answers, req[s].loc.snap)
         totalQuestions == Cardinality(req[s].loc.snap)
     IN IF found = {}
        THEN req' = [req EXCEPT ![s] = Respond(s, req[s], 400, "Join the quiz before submitting")]
        ELSE IF (CHOOSE a \in found : TRUE).completed
        THEN req' = [req EXCEPT ![s] = Respond(s, req[s], 400, "Quiz already completed")]
        ELSE req' = [req EXCEPT ![s] =
               [req[s] EXCEPT !.pc = "quizAttempt.update",
                              !.loc.answers = << >>,
                              !.loc.snap = {},
                              !.loc.score = score,
                              !.loc.total = totalQuestions,
                              !.loc.pct = percentageScore(score, totalQuestions)]]
  /\ UNCHANGED <<db, stage>>

\* quizAttempt.update({ where: userId_quizId, data: { score, completed: true } })
AttemptUpdate(u, q, score) ==
  LET hit == AttemptsOf(u, q)
      rest == DeleteWhere(attempts, LAMBDA a : a \in hit)
  IN rest (+) [a \in {[userId |-> u, quizId |-> q, score |-> score, completed |-> TRUE]}
                 |-> Count(attempts, LAMBDA x : x \in hit)]

Submit_update(s) ==
  /\ req[s].op = "submit"
  /\ req[s].pc = "quizAttempt.update"
  /\ IF AttemptsOf(req[s].tok.id, req[s].quiz) = {}
     THEN /\ req' = [req EXCEPT ![s] = Respond(s, req[s], 500, "Server error")]
          /\ UNCHANGED <<db, stage>>
     ELSE /\ attempts' = AttemptUpdate(req[s].tok.id, req[s].quiz, req[s].loc.score)
          /\ IF req[s].loc.lb = Null
             THEN req' = [req EXCEPT ![s] = Respond(s, req[s], 500, "Server error")]
             ELSE req' = [req EXCEPT ![s].pc = "leaderBoardEntry.upsert"]
          /\ UNCHANGED <<users, quizzes, nextQuiz, questions, nextQuestion, options,
                         leaderboards, nextLb, entries, payments, subAdmins, nextSubAdmin, stage>>

\* leaderBoardEntry.create in place of the upsert.
EntryUpsertCreate(l, u, score) ==
  Insert(entries, [leaderboardId |-> l, userId |-> u, score |-> score])

\* leaderBoardEntry.upsert({ where: leaderboardId_userId, update, create })
EntryUpsert(l, u, score) ==
  LET hit == EntriesOf(l, u)
      rest == DeleteWhere(entries, LAMBDA e : e \in hit)
  IN IF hit = {}
     THEN Insert(entries, [leaderboardId |-> l, userId |-> u, score |-> score])
     ELSE rest (+) [e \in {[leaderboardId |-> l, userId |-> u, score |-> score]}
                      |-> Count(entries, LAMBDA x : x \in hit)]

\* The create arm of the upsert meets the foreign keys of LeaderBoardEntry.
EntryCreateThrows(l, u) ==
  /\ EntriesOf(l, u) = {}
  /\ (~LbExists(l) \/ u \notin users)

Submit_upsert(s) ==
  /\ req[s].op = "submit"
  /\ req[s].pc = "leaderBoardEntry.upsert"
  /\ IF EntryCreateThrows(req[s].loc.lb[1], req[s].tok.id)
     THEN /\ req' = [req EXCEPT ![s] = Respond(s, req[s], 500, "Server error")]
          /\ UNCHANGED <<db, stage>>
     ELSE /\ entries' = EntryUpsert(req[s].loc.lb[1], req[s].tok.id, req[s].loc.score)
          /\ req' = [req EXCEPT ![s] = Respond(s, req[s], 200, "-")]
          /\ stage' = SubmitSucceeded(req[s].tok.id, req[s].quiz)
          /\ UNCHANGED <<users, quizzes, nextQuiz, questions, nextQuestion, options,
                         attempts, leaderboards, nextLb, payments, subAdmins, nextSubAdmin>>

----------------------------------------------------------------------------
(* GET /:quizId/take *)

\* quiz.findUnique({ include: { questions: { include: { options } } } }):
\* the question rows of quiz q as stored, each with the number of its options.
QuestionsRead(q) ==
  {[id |-> x.id, correctAnswer |-> x.correctAnswer,
    options |-> CopiesIn([questionId |-> x.id], options)] : x \in QuestionsOf(q)}

\* The response of take with the question rows as they were read.
formattedQuestionsRaw(list) == list

\* quiz.questions.map(question => ({ id, text, options })).
formattedQuestions(list) ==
  {[id |-> x.id, options |-> x.options] : x \in list}

Take_findQuiz(s, tok, q) ==
  /\ Free(s)
  /\ LET r == NewReq("take", tok, q)
         a == authenticate({"USER"}, tok)
     IN /\ IF a.status # 0
           THEN req' = [req EXCEPT ![s] = Respond(s, r, a.status, a.message)]
           ELSE IF ~QuizExists(q)
           THEN req' = [req EXCEPT ![s] = Respond(s, r, 404, "Quiz not found")]
           ELSE req' = [req EXCEPT ![s] =
                  [r EXCEPT !.pc = "quizAttempt.findUnique", !.loc.snap = QuestionsRead(q)]]
        /\ UNCHANGED <<db, stage>>

Take_findAttempt(s) ==
  /\ req[s].op = "take"
  /\ req[s].pc = "quizAttempt.findUnique"
  /\ LET found == AttemptsOf(req[s].tok.id, req[s].quiz)
         formatted == formattedQuestions(req[s].loc.snap)
     IN IF found = {}
        THEN req' = [req EXCEPT ![s] = Respond(s, req[s], 400, "You need to join this quiz first")]
        ELSE IF (CHOOSE a \in found : TRUE).completed
        THEN req' = [req EXCEPT ![s] = Respond(s, req[s], 400, "You have already completed this quiz")]
        ELSE req' = [req EXCEPT ![s] =
               Respond(s, [req[s] EXCEPT !.loc.total = Cardinality(formatted),
                                         !.loc.data = Some(formatted)], 200, "-")]
  /\ UNCHANGED <<db, stage>>

----------------------------------------------------------------------------
(* GET /:quizId/result *)

\* findIndex(entry => entry.userId === userId) + 1 over the entries of
\* leaderboard l ordered by score, highest first; 0 when u has no entry.
userRank(l, u) ==
  IF EntriesOf(l, u) = {} THEN 0
  ELSE LET mine == CHOOSE e \in EntriesOf(l, u) : TRUE
       IN 1 + Count(entries, LAMBDA e : e.leaderboardId = l /\ e.score > mine.score)

Result_findAttempt(s, tok, q) ==
  /\ Free(s)
  /\ LET r == NewReq("result", tok, q)
         a == authenticate({"USER"}, tok)
         found == AttemptsOf(tok.id, q)
         quizAttempt == CHOOSE x \in found : TRUE
         lbs == LeaderboardsOf(q)
     IN /\ IF a.status # 0
           THEN req' = [req EXCEPT ![s] = Respond(s, r, a.status, a.message)]
           ELSE IF found = {}
           THEN req' = [req EXCEPT ![s] = Respond(s, r, 404, "Quiz attempt not found")]
           ELSE IF ~quizAttempt.completed
           THEN req' = [req EXCEPT ![s] = Respond(s, r, 400, "You have not completed this quiz yet")]
           ELSE IF lbs = {}
           THEN req' = [req EXCEPT ![s] = Respond(s, r, 500, "Error getting quiz result")]
           ELSE req' = [req EXCEPT ![s] =
                  [r EXCEPT !.pc = "leaderBoardEntry.findMany",
                            !.loc.lb = Some((CHOOSE l \in lbs : TRUE).id),
                            !.loc.score = quizAttempt.score,
                            !.loc.total = Cardinality(QuestionsOf(q))]]
        /\ UNCHANGED <<db, stage>>

Result_findMany(s) ==
  /\ req[s].op = "result"
  /\ req[s].pc = "leaderBoardEntry.findMany"
  /\ LET l == req[s].loc.lb[1]
         data == [score |-> req[s].loc.score,
                  totalQuestions |-> req[s].loc.total,
                  percentageScore |-> percentageScore(req[s].loc.score, req[s].loc.total),
                  rank |-> userRank(l, req[s].tok.id),
                  totalParticipants |-> Count(entries, LAMBDA e : e.leaderboardId = l)]
     IN req' = [req EXCEPT ![s] =
                  Respond(s, [req[s] EXCEPT !.loc.data = Some(data)], 200, "-")]
  /\ UNCHANGED <<db, stage>>

----------------------------------------------------------------------------
(* DELETE /delete-user/:id *)

DeleteUser_attempts(s, tok, id) ==
  /\ Free(s)
  /\ LET r == [NewReq("delete-user", tok, 0) EXCEPT !.loc.target = id]
         a == authenticate({"ADMIN", "SUB_ADMIN"}, tok)
     IN IF a.status # 0
        THEN /\ req' = [req EXCEPT ![s] = Respond(s, r, a.status, a.message)]
             /\ UNCHANGED <<db, stage>>
        ELSE /\ attempts' = DeleteWhere(attempts, LAMBDA x : x.userId = id)
             /\ req' = [req EXCEPT ![s] = [r EXCEPT !.pc = "leaderBoardEntry.deleteMany"]]
             /\ UNCHANGED <<users, quizzes, nextQuiz, questions, nextQuestion, options,
                            leaderboards, nextLb, entries, payments, subAdmins, nextSubAdmin, stage>>

DeleteUser_entries(s) ==
  /\ req[s].op = "delete-user"
  /\ req[s].pc = "leaderBoardEntry.deleteMany"
  /\ entries' = DeleteWhere(entries, LAMBDA e : e.userId = req[s].loc.target)
  /\ req' = [req EXCEPT ![s].pc = "user.delete"]
  /\ UNCHANGED <<users, quizzes, nextQuiz, questions, nextQuestion, options,
                 attempts, leaderboards, nextLb, payments, subAdmins, nextSubAdmin, stage>>

\* user.delete: the row must exist, and no QuizAttempt, LeaderBoardEntry or
\* Payment may still reference it (their user relations do not cascade).
UserDeleteThrows(id) ==
  \/ id \notin users
  \/ \E x \in Rows(attempts) : x.userId = id
  \/ \E e \in Rows(entries) : e.userId = id
  \/ \E p \in Rows(payments) : p.userId = id

\* The delete-user handler whose catch block answers as if nothing failed.
DeleteUser_userSwallow(s) ==
  /\ req[s].op = "delete-user"
  /\ req[s].pc = "user.delete"
  /\ IF UserDeleteThrows(req[s].loc.target)
     THEN /\ req' = [req EXCEPT ![s] = Respond(s, req[s], 200, "User deleted successfully")]
          /\ UNCHANGED <<db, stage>>
     ELSE /\ users' = users \ {req[s].loc.target}
          /\ req' = [req EXCEPT ![s] = Respond(s, req[s], 200, "User deleted successfully")]
          /\ UNCHANGED <<quizzes, nextQuiz, questions, nextQuestion, options,
                         attempts, leaderboards, nextLb, entries, payments, subAdmins, nextSubAdmin, stage>>

DeleteUser_user(s) ==
  /\ req[s].op = "delete-user"
  /\ req[s].pc = "user.delete"
  /\ IF UserDeleteThrows(req[s].loc.target)
     THEN /\ req' = [req EXCEPT ![s] = Respond(s, req[s], 500, "Internal server error")]
          /\ UNCHANGED <<db, stage>>
     ELSE /\ users' = users \ {req[s].loc.target}
          /\ req' = [req EXCEPT ![s] = Respond(s, req[s], 200, "User deleted successfully")]
          /\ UNCHANGED <<quizzes, nextQuiz, questions, nextQuestion, options,
                         attempts, leaderboards, nextLb, entries, payments, subAdmins, nextSubAdmin, stage>>

\* DELETE /api/v1/auth/delete-user/:id: user.delete alone, for admins.
AuthDeleteUser(s, tok, id) ==
  /\ Free(s)
  /\ LET r == [NewReq("auth-delete-user", tok, 0) EXCEPT !.loc.target = id]
         a == authenticate({"ADMIN"}, tok)
     IN IF a.status # 0
        THEN /\ req' = [req EXCEPT ![s] = Respond(s, r, a.status, a.message)]
             /\ UNCHANGED <<db, stage>>
        ELSE IF UserDeleteThrows(id)
        THEN /\ req' = [req EXCEPT ![s] = Respond(s, r, 500, "Internal server error")]
             /\ UNCHANGED <<db, stage>>
        ELSE /\ users' = users \ {id}
             /\ req' = [req EXCEPT ![s] = Respond(s, r, 200, "User deleted successfully")]
             /\ UNCHANGED <<quizzes, nextQuiz, questions, nextQuestion, options,
                            attempts, leaderboards, nextLb, entries, payments,
                            subAdmins, nextSubAdmin, stage>>

----------------------------------------------------------------------------
(* Sub-admins: POST /create-sub-admin, GET /sub-admins,                     *)
(* DELETE /sub-admin/:id, and POST /signup                                  *)

\* subAdmin.create: email is @unique and adminId references an Admin row.
SubAdminCreateThrows(email, adminId) ==
  \/ \E x \in subAdmins : x.email = email
  \/ adminId \notin Admins

\* hash(password, SALT_ROUNDS) rejects when the body has no password.
CreateSubAdmin(s, tok, email, password) ==
  /\ Free(s)
  /\ LET r == NewReq("create-sub-admin", tok, 0)
         a == authenticate({"ADMIN"}, tok)
     IN IF a.status # 0
        THEN /\ req' = [req EXCEPT ![s] = Respond(s, r, a.status, a.message)]
             /\ UNCHANGED <<db, stage>>
        ELSE IF ~password \/ SubAdminCreateThrows(email, tok.id)
        THEN /\ req' = [req EXCEPT ![s] = Respond(s, r, 500, "Internal server error")]
             /\ UNCHANGED <<db, stage>>
        ELSE /\ nextSubAdmin <= MaxSubAdmins
             /\ subAdmins' = subAdmins \cup
                  {[id |-> nextSubAdmin, email |-> email, adminId |-> tok.id]}
             /\ nextSubAdmin' = nextSubAdmin + 1
             /\ req' = [req EXCEPT ![s] = Respond(s, [r EXCEPT !.loc.sub = nextSubAdmin],
                                                  201, "Sub-admin created successfully")]
             /\ UNCHANGED <<users, quizzes, nextQuiz, questions, nextQuestion, options,
                            attempts, leaderboards, nextLb, entries, payments, stage>>

\* subAdmin.findMany({ where: { adminId }, select: { id, email, ... } })
GetSubAdmins(s, tok) ==
  /\ Free(s)
  /\ LET r == NewReq("sub-admins", tok, 0)
         a == authenticate({"ADMIN"}, tok)
         found == {[id |-> x.id, email |-> x.email] : x \in {y \in subAdmins : y.adminId = tok.id}}
     IN IF a.status # 0
        THEN req' = [req EXCEPT ![s] = Respond(s, r, a.status, a.message)]
        ELSE req' = [req EXCEPT ![s] = Respond(s, [r EXCEPT !.loc.data = Some(found)],
                                               200, "Sub-admins fetched successfully")]
  /\ UNCHANGED <<db, stage>>

\* The delete handler whose findFirst looks the sub-admin up by id alone.
DeleteSubAdmin_findFirstAnyAdmin(s, tok, id) ==
  /\ Free(s)
  /\ LET r == [NewReq("delete-sub-admin", tok, 0) EXCEPT !.loc.sub = id]
         a == authenticate({"ADMIN"}, tok)
     IN IF a.status # 0
        THEN req' = [req EXCEPT ![s] = Respond(s, r, a.status, a.message)]
        ELSE IF ~\E x \in subAdmins : x.id = id
        THEN req' = [req EXCEPT ![s] = Respond(s, r, 404,
                       "Sub-admin not found or you do not have permission to delete")]
        ELSE req' = [req EXCEPT ![s] = [r EXCEPT !.pc = "subAdmin.delete"]]
  /\ UNCHANGED <<db, stage>>

DeleteSubAdmin_findFirst(s, tok, id) ==
  /\ Free(s)
  /\ LET r == [NewReq("delete-sub-admin", tok, 0) EXCEPT !.loc.sub = id]
         a == authenticate({"ADMIN"}, tok)
     IN IF a.status # 0
        THEN req' = [req EXCEPT ![s] = Respond(s, r, a.status, a.message)]
        ELSE IF ~\E x \in subAdmins : x.id = id /\ x.adminId = tok.id
        THEN req' = [req EXCEPT ![s] = Respond(s, r, 404,
                       "Sub-admin not found or you do not have permission to delete")]
        ELSE req' = [req EXCEPT ![s] = [r EXCEPT !.pc = "subAdmin.delete"]]
  /\ UNCHANGED <<db, stage>>

DeleteSubAdmin_delete(s) ==
  /\ req[s].op = "delete-sub-admin"
  /\ req[s].pc = "subAdmin.delete"
  /\ IF ~\E x \in subAdmins : x.id = req[s].loc.sub
     THEN /\ req' = [req EXCEPT ![s] = Respond(s, req[s], 500, "Internal server error")]
          /\ UNCHANGED <<db, stage>>
     ELSE /\ subAdmins' = {x \in subAdmins : x.id # req[s].loc.sub}
          /\ req' = [req EXCEPT ![s] = Respond(s, req[s], 200, "Sub-admin deleted successfully")]
          /\ UNCHANGED <<users, quizzes, nextQuiz, questions, nextQuestion, options,
                         attempts, leaderboards, nextLb, entries, payments,
                         nextSubAdmin, stage>>

\* POST /signup with the e-mail address of an account that is registered
\* already: admin.create and user.create are refused by @unique on email.
Signup(s, role, password) ==
  /\ Free(s)
  /\ LET r == NewReq("signup", NoToken, 0)
     IN IF ~password
        THEN req' = [req EXCEPT ![s] = Respond(s, r, 500, "Internal server error")]
        ELSE IF role = "SUB_ADMIN"
        THEN req' = [req EXCEPT ![s] = Respond(s, r, 400, "Sub-admins must be created by an admin")]
        ELSE req' = [req EXCEPT ![s] = Respond(s, r, 500, "Internal server error")]
  /\ UNCHANGED <<db, stage>>

----------------------------------------------------------------------------
(* Payments: the payment routes record a Payment row for a user and a quiz. *)

PaymentCreateThrows(u, q) == u \notin users \/ ~QuizExists(q)

RecordPayment(u, q, status) ==
  /\ Count(payments, LAMBDA p : TRUE) < MaxPayments
  /\ ~PaymentCreateThrows(u, q)
  /\ payments' = Insert(payments, [userId |-> u, quizId |-> q, status |-> status])
  /\ UNCHANGED <<users, quizzes, nextQuiz, questions, nextQuestion, options,
                 attempts, leaderboards, nextLb, entries, req, subAdmins, nextSubAdmin, stage>>

----------------------------------------------------------------------------

Init ==
  /\ users = Users
  /\ quizzes = {}
  /\ nextQuiz = 1
  /\ questions = {}
  /\ nextQuestion = 1
  /\ options = EmptyBag
  /\ attempts = EmptyBag
  /\ leaderboards = EmptyBag
  /\ nextLb = 1
  /\ entries = EmptyBag
  /\ payments = EmptyBag
  /\ subAdmins = {}
  /\ nextSubAdmin = 1
  /\ stage = NoStage
  /\ req = [s \in Slots |-> Idle]

\* A request that the middleware rejects is answered before its body is
\* read, so one body stands for all of them.
BodiesRead(check, bodies) ==
  IF check.status = 0 THEN bodies ELSE {CHOOSE b \in bodies : TRUE}

\* The quiz-taking routes and the admin routes on connection s, with tokens
\* from toks.
Routes(s, toks) ==
  \/ \E tok \in toks : \E body \in BodiesRead(authenticate({"ADMIN"}, tok), QuizBodies) :
        CreateQuiz_create(s, tok, body)
  \/ CreateQuiz_leaderBoard(s)
  \/ \E tok \in toks, q \in QuizIds : DeleteQuiz_findFirst(s, tok, q)
  \/ DeleteQuiz_delete(s)
  \/ \E tok \in toks, q \in QuizIds : \E t \in BodiesRead(authMiddleware(tok), Times) :
        Join_findQuiz(s, tok, q, t)
  \/ Join_findAttempt(s)
  \/ Join_create(s)
  \/ \E tok \in toks, q \in QuizIds : \E body \in BodiesRead(authenticate({"USER"}, tok), SubmitBodies) :
        Submit_findQuiz(s, tok, q, body)
  \/ Submit_findAttempt(s)
  \/ Submit_update(s)
  \/ Submit_upsert(s)
  \/ \E tok \in toks : \E id \in BodiesRead(authenticate({"ADMIN", "SUB_ADMIN"}, tok), UserIds) :
        DeleteUser_attempts(s, tok, id)
  \/ DeleteUser_entries(s)
  \/ DeleteUser_user(s)
  \/ \E tok \in toks : \E id \in BodiesRead(authenticate({"ADMIN"}, tok), UserIds) :
        AuthDeleteUser(s, tok, id)

Patch(s, toks) ==
  \/ \E tok \in toks, q \in QuizIds : \E updates \in BodiesRead(authenticate({"ADMIN"}, tok), PatchBodies) :
        PatchQuiz_findFirst(s, tok, q, updates)
  \/ PatchQuiz_transaction(s)

Pay ==
  \E u \in Users, q \in QuizIds, status \in PaymentStatus : RecordPayment(u, q, status)

\* Two clients race, each sending requests with the user's or the admin's
\* token.
Next ==
  \E s \in {2, 3} : Routes(s, RaceTokens)

Spec == Init /\ [][Next]_vars

\* The observed client sends any request with any token, one at a time,
\* while an admin on connection 2 may delete the quiz under it and payments
\* come in.
NextApi ==
  \/ Routes(1, Tokens)
  \/ Patch(1, Tokens)
  \/ \E tok \in AdminTokens, q \in QuizIds : DeleteQuiz_findFirst(2, tok, q)
  \/ DeleteQuiz_delete(2)
  \/ Pay

SpecApi == Init /\ [][NextApi]_vars

\* Scoring: a quiz of 1..MaxTotal questions, each with correct answer "A",
\* has been created and joined by u1; u1 submits "A" for its first k
\* questions.
InitScore ==
  \E n \in 1..MaxTotal :
    /\ users = Users
    /\ quizzes = {[id |-> 1, adminId |-> "a1", price |-> Null,
                   startDate |-> Null, endDate |-> Null]}
    /\ nextQuiz = 2
    /\ questions = {[id |-> i, quizId |-> 1, correctAnswer |-> "A"] : i \in 1..n}
    /\ nextQuestion = n + 1
    /\ options = [o \in {[questionId |-> i] : i \in 1..n} |-> 1]
    /\ attempts = SetToBag({[userId |-> "u1", quizId |-> 1, score |-> 0, completed |-> FALSE]})
    /\ leaderboards = SetToBag({[id |-> 1, quizId |-> 1]})
    /\ nextLb = 2
    /\ entries = EmptyBag
    /\ payments = EmptyBag
    /\ subAdmins = {}
    /\ nextSubAdmin = 1
    /\ stage = [NoStage EXCEPT ![<<"u1", 1>>] = "joined"]
    /\ req = [s \in Slots |-> Idle]

NextScore ==
  \/ \E k \in 0..MaxTotal, tok \in {t \in UserTokens : t.id = "u1"} :
       Submit_findQuiz(1, tok, 1, [isArray |-> TRUE, answers |-> [i \in 1..k |-> Ans(i, "A")]])
  \/ Submit_findAttempt(1)
  \/ Submit_update(1)
  \/ Submit_upsert(1)

SpecScore == InitScore /\ [][NextScore]_vars

\* Joining and submitting, the routes that hand out and show a quiz, and
\* the authoring of quizzes, on connection s with tokens from toks.
QuizTaking(s, toks) ==
  \/ \E tok \in toks, q \in QuizIds, t \in Times : Join_findQuiz(s, tok, q, t)
  \/ Join_findAttempt(s)
  \/ Join_create(s)
  \/ \E tok \in toks, q \in QuizIds, body \in SubmitBodies : Submit_findQuiz(s, tok, q, body)
  \/ Submit_findAttempt(s)
  \/ Submit_update(s)
  \/ Submit_upsert(s)

Reads(s, toks) ==
  \/ \E tok \in toks, q \in QuizIds : Take_findQuiz(s, tok, q)
  \/ Take_findAttempt(s)
  \/ \E tok \in toks, q \in QuizIds : Result_findAttempt(s, tok, q)
  \/ Result_findMany(s)

Authoring(s, toks) ==
  \/ \E tok \in toks, body \in QuizBodies : CreateQuiz_create(s, tok, body)
  \/ CreateQuiz_leaderBoard(s)
  \/ \E tok \in toks, q \in QuizIds : DeleteQuiz_findFirst(s, tok, q)
  \/ DeleteQuiz_delete(s)

\* The observed client joins, takes, submits and asks for its result with a
\* user's token (and asks with any token), while an admin on connection 2
\* creates and deletes the quiz and the same user joins and submits on
\* connection 3.
NextRead ==
  \/ QuizTaking(1, UserTokens)
  \/ Reads(1, Tokens)
  \/ Authoring(2, {t \in AdminTokens : t.id = "a1"})
  \/ QuizTaking(3, UserTokens)

SpecRead == Init /\ [][NextRead]_vars

\* The sub-admin routes and signup on connection s with tokens from toks.
SubAdminRoutes(s, toks) ==
  \/ \E tok \in toks, email \in Emails, password \in BOOLEAN :
        CreateSubAdmin(s, tok, email, password)
  \/ \E tok \in toks : GetSubAdmins(s, tok)
  \/ \E tok \in toks, id \in SubAdminIds : DeleteSubAdmin_findFirst(s, tok, id)
  \/ DeleteSubAdmin_delete(s)
  \/ \E role \in Role, password \in BOOLEAN : Signup(s, role, password)

\* The observed client uses the sub-admin routes with any token while the
\* admins use them on connection 2.
NextAdmin ==
  \/ SubAdminRoutes(1, Tokens)
  \/ SubAdminRoutes(2, AdminTokens)

SpecAdmin == Init /\ [][NextAdmin]_vars

----------------------------------------------------------------------------
(* Properties *)

InFlight(s) == req[s].pc \notin {"idle", "done"}

\* Connection s takes a step of its handler / receives a new request.
Steps(s) == req'[s] # req[s]
Arrives(s, op) == Free(s) /\ Steps(s) /\ req'[s].op = op

Answered(r, status) == r.pc = "done" /\ r.status = status

\* C1: at most one QuizAttempt row per (user, quiz), also when two joins of
\* the same user for the same quiz interleave their check and their create.
C1_OneAttemptPerUserQuiz ==
  \A a \in Rows(attempts) :
    Count(attempts, LAMBDA x : x.userId = a.userId /\ x.quizId = a.quizId) = 1

\* A join is about to create the attempt that another join has created
\* since its check.
C1_Witness ==
  \E s \in Slots :
    /\ req[s].op = "join"
    /\ req[s].pc = "quizAttempt.create"
    /\ AttemptsOf(req[s].tok.id, req[s].quiz) # {}

\* C2: at most one LeaderBoardEntry row per (leaderboard, user) and at most
\* one LeaderBoard row per quiz.
C2_OneEntryPerUserOneBoardPerQuiz ==
  /\ \A e \in Rows(entries) :
       Count(entries, LAMBDA x : x.leaderboardId = e.leaderboardId /\ x.userId = e.userId) = 1
  /\ \A l \in Rows(leaderboards) :
       Count(leaderboards, LAMBDA x : x.quizId = l.quizId) = 1

\* A submit is about to upsert an entry that already exists.
C2_Witness ==
  \E s \in Slots :
    /\ req[s].op = "submit"
    /\ req[s].pc = "leaderBoardEntry.upsert"
    /\ EntriesOf(req[s].loc.lb[1], req[s].tok.id) # {}

\* round(100 * n / total) for integers, halves upwards.
RoundedPercent(n, total) == (200 * n + total) \div (2 * total)

\* C3: a submit scores one point per answer that names a question of the
\* quiz and gives its correct answer, reports round(100 * score / number of
\* questions), writes the score to the attempt and upserts it into the
\* user's leaderboard entry.
C3_ScoreAndPercentage ==
  [][\A s \in Slots :
       /\ (req[s].op = "submit" /\ req[s].pc = "quizAttempt.findUnique"
             /\ req'[s].pc = "quizAttempt.update")
          => LET answers == req[s].loc.answers
                 snap == req[s].loc.snap
                 n == Cardinality({i \in 1..Len(answers) :
                        \E x \in snap : /\ x.id = answers[i].questionId
                                        /\ x.correctAnswer = answers[i].answerId})
                 total == Cardinality(snap)
             IN /\ req'[s].loc.score = n
                /\ total > 0 => req'[s].loc.pct = Some(RoundedPercent(n, total))
       /\ (req[s].op = "submit" /\ req[s].pc = "quizAttempt.update"
             /\ req'[s].pc = "leaderBoardEntry.upsert")
          => [userId |-> req[s].tok.id, quizId |-> req[s].quiz,
              score |-> req[s].loc.score, completed |-> TRUE] \in Rows(attempts')
       /\ (req[s].op = "submit" /\ req[s].pc = "leaderBoardEntry.upsert"
             /\ Answered(req'[s], 200))
          => [leaderboardId |-> req[s].loc.lb[1], userId |-> req[s].tok.id,
              score |-> req[s].loc.score] \in Rows(entries')
    ]_vars

SubmitInFlight(u, q) ==
  \E s \in Slots : InFlight(s) /\ req[s].op = "submit" /\ req[s].tok.id = u /\ req[s].quiz = q

\* C4: once the submits for a (user, quiz) attempt have ended and have left
\* a completed attempt and a leaderboard entry, there is one attempt row and
\* one entry, and they carry the same score.
C4_ConcurrentSubmitsAgree ==
  \A a \in Rows(attempts) : \A l \in LeaderboardsOf(a.quizId) :
    (a.completed /\ ~SubmitInFlight(a.userId, a.quizId) /\ EntriesOf(l.id, a.userId) # {})
    => /\ Count(attempts, LAMBDA x : x.userId = a.userId /\ x.quizId = a.quizId) = 1
       /\ Count(entries, LAMBDA x : x.leaderboardId = l.id /\ x.userId = a.userId) = 1
       /\ \A e \in EntriesOf(l.id, a.userId) : e.score = a.score

\* C5: a join creates an attempt for a quiz that has a price only when the
\* user has a COMPLETED payment for that quiz.
C5_PaymentGatedJoin ==
  [][\A s \in Slots :
       (req[s].op = "join" /\ req[s].pc = "quizAttempt.create" /\ attempts' # attempts)
       => (QuizRow(req[s].quiz).price # Null
           => \E p \in Rows(payments) : /\ p.userId = req[s].tok.id
                                        /\ p.quizId = req[s].quiz
                                        /\ p.status = "COMPLETED")
    ]_vars

\* C6: a submit that finds no attempt or a completed attempt ends without
\* changing stored state, and a submit writes a score only to an attempt
\* that is joined and not yet completed.
C6_SubmitOnlyOpenAttempt ==
  [][\A s \in Slots :
       /\ (req[s].op = "submit" /\ req[s].pc = "quizAttempt.findUnique" /\ Steps(s)
             /\ \A a \in AttemptsOf(req[s].tok.id, req[s].quiz) : a.completed)
          => (~InFlight(s))' /\ UNCHANGED db
       /\ (req[s].op = "submit" /\ req[s].pc = "quizAttempt.update" /\ attempts' # attempts)
          => /\ AttemptsOf(req[s].tok.id, req[s].quiz) # {}
             /\ \A a \in AttemptsOf(req[s].tok.id, req[s].quiz) : ~a.completed
    ]_vars

\* The checks of a join up to the create, in their order, on connection s.
JoinChecks(s) ==
  /\ (Arrives(s, "join") /\ req'[s].tok.valid)
     => LET r == req'[s]
            z == QuizRow(r.quiz)
        IN /\ UNCHANGED db
           /\ IF ~QuizExists(r.quiz) THEN Answered(r, 404)
              ELSE IF z.startDate # Null /\ z.startDate[1] > r.loc.t
              THEN Answered(r, 403) /\ r.message = "This quiz has not started yet"
              ELSE IF z.endDate # Null /\ z.endDate[1] < r.loc.t
              THEN Answered(r, 403) /\ r.message = "This quiz has already ended"
              ELSE r.pc = "quizAttempt.findUnique"
  /\ (req[s].op = "join" /\ req[s].pc = "quizAttempt.findUnique" /\ Steps(s))
     => /\ UNCHANGED db
        /\ IF AttemptsOf(req[s].tok.id, req[s].quiz) # {}
           THEN Answered(req'[s], 400)
           ELSE req'[s].pc = "quizAttempt.create"

JoinCreates(s) ==
  /\ Answered(req'[s], 201)
  /\ attempts' = attempts (+) SetToBag({[userId |-> req[s].tok.id, quizId |-> req[s].quiz,
                                         score |-> 0, completed |-> FALSE]})
  /\ UNCHANGED <<users, quizzes, questions, options, leaderboards, entries, payments>>

\* C7 as claimed: a join answers 404, 403, 403, 400 in this order and
\* creates nothing then; otherwise it creates the attempt and answers 201
\* (the last part stated for callers that hold a user's token).
C7_JoinAlwaysCreates ==
  [][\A s \in Observed :
       /\ JoinChecks(s)
       /\ (req[s].op = "join" /\ req[s].pc = "quizAttempt.create" /\ Steps(s)
             /\ req[s].tok.role = "USER")
          => JoinCreates(s)
    ]_vars

\* C7 amended: as above, but the create may be refused by the database (the
\* user or the quiz is gone, or the attempt exists by now): then the join
\* answers 500 and creates nothing.
C7_JoinChecksThenCreateOr500 ==
  [][\A s \in Observed :
       /\ JoinChecks(s)
       /\ (req[s].op = "join" /\ req[s].pc = "quizAttempt.create" /\ Steps(s))
          => IF \/ req[s].tok.id \notin users
                \/ ~QuizExists(req[s].quiz)
                \/ AttemptsOf(req[s].tok.id, req[s].quiz) # {}
             THEN Answered(req'[s], 500) /\ UNCHANGED db
             ELSE JoinCreates(s)
    ]_vars

\* The observed client has joined: 201, and its open attempt is stored.
C7_Witness ==
  /\ req[1].op = "join"
  /\ Answered(req[1], 201)
  /\ [userId |-> req[1].tok.id, quizId |-> req[1].quiz, score |-> 0, completed |-> FALSE]
       \in Rows(attempts)

\* C8: no Question, Option, QuizAttempt, LeaderBoard, LeaderBoardEntry or
\* Payment row references a quiz, question or leaderboard that is gone.
C8_NoDanglingReference ==
  /\ \A x \in questions : QuizExists(x.quizId)
  /\ \A o \in Rows(options) : \E x \in questions : x.id = o.questionId
  /\ \A a \in Rows(attempts) : QuizExists(a.quizId)
  /\ \A l \in Rows(leaderboards) : QuizExists(l.quizId)
  /\ \A e \in Rows(entries) : LbExists(e.leaderboardId)
  /\ \A p \in Rows(payments) : QuizExists(p.quizId)

\* The observed client's submit was scored (so the quiz had questions, an
\* attempt, a leaderboard and an entry) and the quiz has been deleted since.
C8_Witness ==
  /\ req[1].op = "submit"
  /\ Answered(req[1], 200)
  /\ ~QuizExists(req[1].quiz)
  /\ questions = {}
  /\ attempts = EmptyBag
  /\ entries = EmptyBag

\* The ORM call that connection s is about to make throws.
OrmThrows(s) ==
  LET r == req[s]
  IN \/ /\ r.op = "create-quiz" /\ r.pc = "leaderBoard.create"
        /\ (~QuizExists(r.quiz) \/ LeaderboardsOf(r.quiz) # {})
     \/ r.op = "delete-quiz" /\ r.pc = "quiz.delete" /\ ~QuizExists(r.quiz)
     \/ /\ r.op = "patch-quiz" /\ r.pc = "$transaction"
        /\ \/ DatesInverted(r.loc.updates.startDate, r.loc.updates.endDate)
           \/ PatchWrites(r.loc.updates) /\ ~QuizExists(r.quiz)
     \/ /\ r.op = "join" /\ r.pc = "quizAttempt.create"
        /\ (r.tok.id \notin users \/ ~QuizExists(r.quiz) \/ AttemptsOf(r.tok.id, r.quiz) # {})
     \/ r.op = "submit" /\ r.pc = "quizAttempt.update" /\ AttemptsOf(r.tok.id, r.quiz) = {}
     \/ /\ r.op = "submit" /\ r.pc = "leaderBoardEntry.upsert"
        /\ EntriesOf(r.loc.lb[1], r.tok.id) = {}
        /\ (~LbExists(r.loc.lb[1]) \/ r.tok.id \notin users)
     \/ /\ r.op = "delete-user" /\ r.pc = "user.delete"
        /\ \/ r.loc.target \notin users
           \/ \E x \in Rows(attempts) \cup Rows(entries) \cup Rows(payments) :
                x.userId = r.loc.target

RolesOf(op) ==
  CASE op = "create-quiz" -> {"ADMIN"}
    [] op = "delete-quiz" -> {"ADMIN"}
    [] op = "patch-quiz" -> {"ADMIN"}
    [] op = "submit" -> {"USER"}
    [] op = "delete-user" -> {"ADMIN", "SUB_ADMIN"}

Protected == {"create-quiz", "delete-quiz", "patch-quiz", "submit", "delete-user"}

AuthAnswers == {"Unauthorized", "Invalid token", "Access denied"}

\* C10: authenticate(roles) answers 401 without a token, 403 'Invalid token'
\* for a token that does not verify, 403 'Access denied' for a role outside
\* roles, and otherwise lets the handler run; the handler never runs, and
\* nothing is stored, for a role outside roles.
C10_AuthenticateGuards ==
  [][\A s \in Slots :
       /\ (s \in Observed /\ Steps(s) /\ Free(s) /\ req'[s].op \in Protected)
          => LET r == req'[s]
             IN /\ ~r.tok.present
                     => Answered(r, 401) /\ r.message = "Unauthorized" /\ UNCHANGED db
                /\ (r.tok.present /\ ~r.tok.valid)
                     => Answered(r, 403) /\ r.message = "Invalid token" /\ UNCHANGED db
                /\ (r.tok.valid /\ r.tok.role \notin RolesOf(r.op))
                     => Answered(r, 403) /\ r.message = "Access denied" /\ UNCHANGED db
                /\ (r.tok.valid /\ r.tok.role \in RolesOf(r.op))
                     => r.message \notin AuthAnswers
       /\ (InFlight(s)' /\ req'[s].op \in Protected)
          => req'[s].tok.valid /\ req'[s].tok.role \in RolesOf(req'[s].op)
    ]_vars

\* The observed client was refused for its role.
C10_Witness ==
  /\ req[1].op \in Protected
  /\ Answered(req[1], 403)
  /\ req[1].message = "Access denied"
  /\ req[1].tok.valid

\* The quiz that a PATCH or DELETE names is owned by the caller.
OwnedBy(r) == \E z \in quizzes : z.id = r.quiz /\ z.adminId = r.tok.id

\* C11: a PATCH or DELETE of an admin for a quiz that is missing or owned by
\* another admin answers 404 and changes no quiz, question or option; a
\* PATCH or DELETE changes quizzes, questions or options, or answers 200,
\* only for the quiz's owner.
C11_OwnerOnlyPatchDelete ==
  [][\A s \in Slots :
       /\ (s \in Observed /\ Free(s) /\ Steps(s)
             /\ req'[s].op \in {"patch-quiz", "delete-quiz"}
             /\ req'[s].tok.valid /\ req'[s].tok.role = "ADMIN"
             /\ ~OwnedBy(req'[s]))
          => /\ Answered(req'[s], 404)
             /\ UNCHANGED <<quizzes, questions, options>>
       /\ (InFlight(s) /\ Steps(s) /\ req[s].op \in {"patch-quiz", "delete-quiz"}
             /\ <<quizzes, questions, options>>' # <<quizzes, questions, options>>)
          => OwnedBy(req[s])
       /\ (s \in Observed /\ InFlight(s) /\ Steps(s)
             /\ req[s].op \in {"patch-quiz", "delete-quiz"} /\ Answered(req'[s], 200))
          => \A z \in quizzes : z.id = req[s].quiz => z.adminId = req[s].tok.id
    ]_vars

\* An admin was answered 404 for a quiz that exists and is another admin's.
C11_Witness ==
  /\ req[1].op \in {"patch-quiz", "delete-quiz"}
  /\ Answered(req[1], 404)
  /\ req[1].tok.valid /\ req[1].tok.role = "ADMIN"
  /\ \E z \in quizzes : z.id = req[1].quiz /\ z.adminId # req[1].tok.id

\* C12: take answers 404 when the quiz is missing, 400 when the user has no
\* attempt for it, 400 when the attempt is completed, and otherwise 200 with
\* the questions of the quiz, none of which carries the correct answer; it
\* changes nothing, and answers 200 only to a user with an open attempt.
C12_TakeOnlyOpenAttemptNoAnswers ==
  [][\A s \in Observed :
       /\ (Arrives(s, "take") /\ req'[s].tok.valid /\ req'[s].tok.role = "USER")
          => /\ UNCHANGED db
             /\ IF ~QuizExists(req'[s].quiz) THEN Answered(req'[s], 404)
                ELSE req'[s].pc = "quizAttempt.findUnique"
       /\ (req[s].op = "take" /\ req[s].pc = "quizAttempt.findUnique" /\ Steps(s))
          => /\ UNCHANGED db
             /\ LET found == AttemptsOf(req[s].tok.id, req[s].quiz)
                    r == req'[s]
                IN IF found = {} THEN Answered(r, 400)
                   ELSE IF \E a \in found : a.completed THEN Answered(r, 400)
                   ELSE /\ Answered(r, 200)
                        /\ r.loc.data # Null
                        /\ {d.id : d \in r.loc.data[1]} = {x.id : x \in req[s].loc.snap}
                        /\ \A d \in r.loc.data[1] : "correctAnswer" \notin DOMAIN d
       /\ (Steps(s) /\ req'[s].op = "take" /\ Answered(req'[s], 200))
          => \E a \in AttemptsOf(req[s].tok.id, req[s].quiz) : ~a.completed
    ]_vars

\* The observed user was handed the questions of a quiz it has joined.
C12_Witness ==
  /\ req[1].op = "take"
  /\ Answered(req[1], 200)
  /\ req[1].loc.data # Null
  /\ req[1].loc.data[1] # {}

\* C13: result answers 404 when the user has no attempt for the quiz and 400
\* when the attempt is not completed; it answers 200 only for a completed
\* attempt, with the score stored in it, and only after a join of that user
\* for that quiz was answered 201 and then a submit was answered 200.
C13_ResultAfterJoinAndSubmit ==
  [][\A s \in Observed :
       /\ (Arrives(s, "result") /\ req'[s].tok.valid /\ req'[s].tok.role = "USER")
          => /\ UNCHANGED db
             /\ LET found == AttemptsOf(req'[s].tok.id, req'[s].quiz)
                    r == req'[s]
                IN IF found = {} THEN Answered(r, 404)
                   ELSE IF \E a \in found : ~a.completed THEN Answered(r, 400)
                   ELSE \/ Answered(r, 500)
                        \/ /\ r.pc = "leaderBoardEntry.findMany"
                           /\ \A a \in found : r.loc.score = a.score
       /\ (Steps(s) /\ req'[s].op = "result" /\ Answered(req'[s], 200))
          => /\ UNCHANGED db
             /\ req[s].pc = "leaderBoardEntry.findMany"
             /\ req'[s].loc.data # Null
             /\ req'[s].loc.data[1].score = req[s].loc.score
             /\ stage[<<req[s].tok.id, req[s].quiz>>] = "submitted"
    ]_vars

\* C14: create-quiz answers 400 and creates nothing when title, description
\* or questions is missing or questions is not a non-empty array; when it
\* answers 201 the new quiz is stored with the calling admin as its owner
\* and has exactly one leaderboard, which has no entries.
C14_CreateQuizValidatesAndOwns ==
  [][\A s \in Observed :
       /\ (Arrives(s, "create-quiz") /\ req'[s].tok.valid /\ req'[s].tok.role = "ADMIN")
          => LET body == req'[s].loc.body[1]
             IN (~body.title \/ ~body.description \/ ~body.isArray \/ body.questions = << >>)
                => Answered(req'[s], 400) /\ UNCHANGED db
       /\ (InFlight(s) /\ Steps(s) /\ req[s].op = "create-quiz" /\ Answered(req'[s], 201))
          => /\ \E z \in quizzes' : z.id = req[s].quiz /\ z.adminId = req[s].tok.id
             /\ Count(leaderboards', LAMBDA l : l.quizId = req[s].quiz) = 1
             /\ \A l \in Rows(leaderboards') :
                  l.quizId = req[s].quiz
                  => Count(entries', LAMBDA x : x.leaderboardId = l.id) = 0
    ]_vars

\* The observed admin created a quiz: 201, and the quiz has its leaderboard.
C14_Witness ==
  /\ req[1].op = "create-quiz"
  /\ Answered(req[1], 201)
  /\ \E z \in quizzes : z.id = req[1].quiz /\ z.adminId = req[1].tok.id
  /\ LeaderboardsOf(req[1].quiz) # {}

\* C15: a user row is deleted, by either delete-user route, only for a
\* caller whose token has the role ADMIN.
C15_DeleteUserAdminOnly ==
  [][\A s \in Slots :
       (Steps(s) /\ users' # users
          /\ (req[s].op = "delete-user" \/ req'[s].op = "auth-delete-user"))
       => (IF req[s].op = "delete-user" /\ InFlight(s)
           THEN req[s].tok.role ELSE req'[s].tok.role) = "ADMIN"
    ]_vars

C17_CompletedAttemptIsFinal ==
  [][\A s \in Slots :
       (InFlight(s) /\ Steps(s) /\ req[s].op = "submit")
       => /\ \A a \in Rows(attempts) : a.completed => a \in Rows(attempts')
          /\ \A a \in Rows(attempts) : \A l \in LeaderboardsOf(a.quizId) :
               a.completed
               => \A e \in EntriesOf(l.id, a.userId) : e \in Rows(entries')
    ]_vars

====
